---- MODULE Spec2Model ----
(***************************************************************************)
(* A model of svg_gen.py: the validation functions, the gradient stop and  *)
(* the custom gradient parser, the two rendering entry points that run the *)
(* external engines (toilet, figlet), grid_to_paths, generate_svg, the     *)
(* edits render_text_svg makes to the engine's document, and the command   *)
(* line boundary.                                                          *)
(*                                                                         *)
(* Strings are sequences of one-character strings, so that the regular     *)
(* expressions, split, strip and int() are modelled by what they do to the *)
(* characters.                                                             *)
(***************************************************************************)
EXTENDS Integers, Sequences, FiniteSets, TLC

VARIABLES
    pc,            \* "idle" | "run" (an engine invocation is pending) |
                   \* "once" (an edit step was applied once) | "done"
    fn,            \* the function under execution, "none" before a call
    cli,           \* TRUE when the call was made by cli_main
    text,          \* the text argument
    font,          \* the font argument
    color,         \* GradientStop: the color argument
    position,      \* GradientStop: the offset_percent argument
    gradient_str,  \* parse_custom_gradient: the argument (args.custom_gradient)
    pairs,         \* the (color, offset) pairs gradient_str was written from
    cmdIdx,        \* render_text_grid: index of the command the loop is at
    last_error,    \* render_text_grid: last_error
    invoked,       \* the argument vectors handed to subprocess.run, in order
    results,       \* what each of those invocations did: "ok" or the failure
    exc,           \* the exception the call raised, NoExc when none
    ret,           \* the value the call returned, NoRet when none
    status,        \* cli_main: the exit status, NoStatus when none
    written,       \* cli_main: TRUE once the document was written out
    output,        \* cli_main: the document handed to print or to write_text
    grid,          \* grid_to_paths: the grid argument
    scale,         \* grid_to_paths: the scale argument
    engine_stdout, \* result.stdout of the engine run that exited with status 0,
                   \* or the document an edit step on its own is given
    gradient,      \* generate_svg, render_text_svg: the stops of the gradient
    gradient_id,   \* generate_svg, render_text_svg: the gradient_id argument
    path_result,   \* generate_svg: the path_result argument
    once           \* an edit step on its own: the document after one application

\* the variables of grid_to_paths, generate_svg and the document edits
extra == << grid, scale, engine_stdout, gradient, gradient_id, path_result, once >>

vars == << pc, fn, cli, text, font, color, position, gradient_str, pairs, cmdIdx,
           last_error, invoked, results, exc, ret, status, written, output,
           extra >>

(***************************************************************************)
(* Bounds of the model.                                                    *)
(***************************************************************************)
MaxFontLen == 2      \* longest font identifier tried
MaxTail == 2         \* longest run of characters after a color's 7th tried
MaxPairs == 3        \* most color:offset pairs in a custom gradient string
MaxOut == 4          \* longest engine output tried
MaxGridW == 2        \* widest grid given to grid_to_paths
MaxGridH == 2        \* tallest grid given to grid_to_paths
MaxCells == 2        \* most character cells in a document of toilet -E svg

(***************************************************************************)
(* Program constants.                                                      *)
(***************************************************************************)
MAX_TEXT_LENGTH == 1000
DEFAULT_SCALE == 10
NoStatus == 0 - 1

(***************************************************************************)
(* Characters and strings.                                                 *)
(***************************************************************************)
LowerCase == { "a","b","c","d","e","f","g","h","i","j","k","l","m",
               "n","o","p","q","r","s","t","u","v","w","x","y","z" }
UpperCase == { "A","B","C","D","E","F","G","H","I","J","K","L","M",
               "N","O","P","Q","R","S","T","U","V","W","X","Y","Z" }
Digits == { "0","1","2","3","4","5","6","7","8","9" }
HexDigits == Digits \cup { "a","b","c","d","e","f","A","B","C","D","E","F" }
\* the characters str.strip() and int() treat as whitespace
Whitespace == { " ", "\t", "\n", "\r" }

SeqsUpTo(S, n) == UNION { [1..k -> S] : k \in 0..n }

Repeat(c, n) == [i \in 1..n |-> c]

\* the position of `$` in a pattern compiled without re.MULTILINE: at the
\* end of the string, or just before a newline that ends the string
DollarAt(s, k) ==
    \/ k = Len(s)
    \/ k = Len(s) - 1 /\ s[Len(s)] = "\n"

\* str.strip(): leading and trailing whitespace removed
RECURSIVE LStrip(_)
LStrip(s) == IF s # << >> /\ Head(s) \in Whitespace THEN LStrip(Tail(s)) ELSE s

RECURSIVE RStrip(_)
RStrip(s) ==
    IF s # << >> /\ s[Len(s)] \in Whitespace
    THEN RStrip(SubSeq(s, 1, Len(s) - 1)) ELSE s

Strip(s) == RStrip(LStrip(s))

\* str.split(sep) for a one-character separator: always at least one part
RECURSIVE SplitFrom(_, _, _)
SplitFrom(s, sep, cur) ==
    IF s = << >> THEN << cur >>
    ELSE IF Head(s) = sep THEN << cur >> \o SplitFrom(Tail(s), sep, << >>)
    ELSE SplitFrom(Tail(s), sep, Append(cur, Head(s)))

Split(s, sep) == SplitFrom(s, sep, << >>)

Contains(s, c) == \E i \in 1..Len(s) : s[i] = c

\* str.rsplit(sep, 1) on a string that contains sep: cut at the LAST sep
RSplit1(s, sep) ==
    LET i == CHOOSE j \in 1..Len(s) :
                 s[j] = sep /\ \A k \in (j + 1)..Len(s) : s[k] # sep
    IN  << SubSeq(s, 1, i - 1), SubSeq(s, i + 1, Len(s)) >>

DigitValue(c) ==
    CASE c = "0" -> 0 [] c = "1" -> 1 [] c = "2" -> 2 [] c = "3" -> 3
      [] c = "4" -> 4 [] c = "5" -> 5 [] c = "6" -> 6 [] c = "7" -> 7
      [] c = "8" -> 8 [] c = "9" -> 9

\* digits with single underscores between them, as int() accepts them
DigitsOk(s) ==
    /\ s # << >>
    /\ \A i \in 1..Len(s) : s[i] \in Digits \cup { "_" }
    /\ s[1] # "_" /\ s[Len(s)] # "_"
    /\ \A i \in 1..(Len(s) - 1) : ~(s[i] = "_" /\ s[i + 1] = "_")

RECURSIVE DigitsValue(_, _)
DigitsValue(s, acc) ==
    IF s = << >> THEN acc
    ELSE IF Head(s) = "_" THEN DigitsValue(Tail(s), acc)
    ELSE DigitsValue(Tail(s), 10 * acc + DigitValue(Head(s)))

\* int(s): whitespace around, an optional sign, base-10 digits; ok = FALSE
\* stands for ValueError
int(s) ==
    LET t == Strip(s)
        signed == t # << >> /\ t[1] \in { "+", "-" }
        body == IF signed THEN Tail(t) ELSE t
    IN  IF DigitsOk(body)
        THEN [ ok |-> TRUE,
               val |-> IF signed /\ t[1] = "-"
                       THEN 0 - DigitsValue(body, 0) ELSE DigitsValue(body, 0) ]
        ELSE [ ok |-> FALSE, val |-> 0 ]

(***************************************************************************)
(* Exceptions.                                                             *)
(***************************************************************************)
NoCause == [ type |-> "None", cmd |-> "" ]
NoExc == [ type |-> "None", msg |-> "", cause |-> NoCause ]
NoRet == [ type |-> "None" ]

ValidationError(m) == [ type |-> "ValidationError", msg |-> m, cause |-> NoCause ]
\* raise RenderError(msg) from c; c = NoCause models "from None" and a raise
\* outside any handler
RenderError(m, c) == [ type |-> "RenderError", msg |-> m, cause |-> c ]

(***************************************************************************)
(* Validation.                                                             *)
(***************************************************************************)
FontNameClass == LowerCase \cup UpperCase \cup Digits \cup { "_", "-" }

\* FONT_NAME_PATTERN.match(s) for ^[a-zA-Z0-9_-]+$
FONT_NAME_PATTERN(s) ==
    \E k \in 1..Len(s) :
        /\ \A i \in 1..k : s[i] \in FontNameClass
        /\ DollarAt(s, k)

\* HEX_COLOR_PATTERN.match(s) for ^#[0-9a-fA-F]{6}$
HEX_COLOR_PATTERN(s) ==
    /\ Len(s) >= 7
    /\ s[1] = "#"
    /\ \A i \in 2..7 : s[i] \in HexDigits
    /\ DollarAt(s, 7)

validate_font_name(f) ==
    IF ~FONT_NAME_PATTERN(f) THEN ValidationError("Invalid font name") ELSE NoExc

validate_text(t) ==
    IF t = << >> THEN ValidationError("Text cannot be empty")
    ELSE IF Len(t) > MAX_TEXT_LENGTH
    THEN ValidationError("Text exceeds maximum length")
    ELSE NoExc

(***************************************************************************)
(* GradientStop and parse_custom_gradient.                                 *)
(***************************************************************************)
\* GradientStop(c, p): the dataclass constructor followed by __post_init__
GradientStop(c, p) ==
    IF ~HEX_COLOR_PATTERN(c)
    THEN [ exc |-> ValidationError("Invalid hex color format"), stop |-> NoRet ]
    ELSE IF ~(0 <= p /\ p <= 100)
    THEN [ exc |-> ValidationError("Offset must be 0-100"), stop |-> NoRet ]
    ELSE [ exc |-> NoExc,
           stop |-> [ type |-> "GradientStop", color |-> c, offset_percent |-> p ] ]

\* the for loop over gradient_str.split(","), from part number i (lines
\* 682-702): the stops collected, or the first exception raised
RECURSIVE ParseParts(_, _, _)
ParseParts(parts, i, stops) ==
    IF i > Len(parts)
    THEN [ exc |-> NoExc, stops |-> stops ]
    ELSE LET part == Strip(parts[i])
         IN  IF ~Contains(part, ":")
             THEN [ exc |-> ValidationError("Invalid gradient format"),
                    stops |-> << >> ]
             ELSE LET cut == RSplit1(part, ":")
                      offset == int(cut[2])
                  IN  IF ~offset.ok
                      THEN [ exc |-> ValidationError("Invalid offset value"),
                             stops |-> << >> ]
                      ELSE LET g == GradientStop(Strip(cut[1]), offset.val)
                           IN  IF g.exc # NoExc
                               THEN [ exc |-> g.exc, stops |-> << >> ]
                               ELSE ParseParts(parts, i + 1, Append(stops, g.stop))

MinStopsError == ValidationError("Gradient must have at least 2 color stops")

Reverse(q) == [ i \in 1..Len(q) |-> q[Len(q) + 1 - i] ]

\* a parser that inserts each stop at the front of the list
parse_custom_gradient_reversed(s) ==
    LET r == ParseParts(Split(s, ","), 1, << >>)
    IN  IF r.exc # NoExc THEN r
        ELSE IF Len(r.stops) < 2 THEN [ exc |-> MinStopsError, stops |-> << >> ]
        ELSE [ exc |-> NoExc, stops |-> Reverse(r.stops) ]

\* a parser whose minimum is one stop
parse_custom_gradient_min1(s) ==
    LET r == ParseParts(Split(s, ","), 1, << >>)
    IN  IF r.exc # NoExc THEN r
        ELSE IF Len(r.stops) < 1 THEN [ exc |-> MinStopsError, stops |-> << >> ]
        ELSE r

parse_custom_gradient(s) ==
    LET r == ParseParts(Split(s, ","), 1, << >>)
    IN  IF r.exc # NoExc THEN r
        ELSE IF Len(r.stops) < 2 THEN [ exc |-> MinStopsError, stops |-> << >> ]
        ELSE r

(***************************************************************************)
(* render_text_grid: the post-processing of the engine's output.           *)
(***************************************************************************)
\* str.rstrip("\n"): every trailing newline removed
RStripOneNewline(s) ==
    IF s # << >> /\ s[Len(s)] = "\n" THEN SubSeq(s, 1, Len(s) - 1) ELSE s
RECURSIVE RStripNewlines(_)
RStripNewlines(s) ==
    IF s # << >> /\ s[Len(s)] = "\n"
    THEN RStripNewlines(SubSeq(s, 1, Len(s) - 1)) ELSE s

\* str.ljust(w): blanks appended up to width w, longer strings unchanged
rjust(line, w) ==
    IF Len(line) >= w THEN line ELSE Repeat(" ", w - Len(line)) \o line
ljust(line, w) ==
    IF Len(line) >= w THEN line ELSE line \o Repeat(" ", w - Len(line))

MaxLen(lines) ==
    CHOOSE m \in { Len(lines[i]) : i \in 1..Len(lines) } :
        \A i \in 1..Len(lines) : Len(lines[i]) <= m

GridResult(lines, w, h) ==
    [ type |-> "GridResult", lines |-> lines, width |-> w, height |-> h ]

\* lines 469-487: from result.stdout to the GridResult or the RenderError
GridFromStdout(stdout) ==
    LET raw_lines == Split(RStripNewlines(stdout), "\n")
    IN  IF raw_lines = << >> \/ \A i \in 1..Len(raw_lines) : raw_lines[i] = << >>
        THEN [ exc |-> RenderError("No output", NoCause), ret |-> NoRet ]
        ELSE LET max_width == MaxLen(raw_lines)
                 padded_lines == [ i \in 1..Len(raw_lines) |->
                                       ljust(raw_lines[i], max_width) ]
             IN  [ exc |-> NoExc,
                   ret |-> GridResult(padded_lines, max_width, Len(padded_lines)) ]

(***************************************************************************)
(* grid_to_paths.                                                          *)
(***************************************************************************)
\* a string literal as a sequence of one-character strings
Chars(str) == [ i \in 1..Len(str) |-> SubSeq(str, i, i) ]

DigitChar(d) == << "0", "1", "2", "3", "4", "5", "6", "7", "8", "9" >>[d + 1]

\* the decimal digits of a natural number, as format() writes them
RECURSIVE StrNat(_)
StrNat(n) ==
    IF n < 10 THEN << DigitChar(n) >> ELSE StrNat(n \div 10) \o << DigitChar(n % 10) >>

\* an int in a format string: f"{n}"
StrInt(n) == IF n < 0 THEN << "-" >> \o StrNat(0 - n) ELSE StrNat(n)

\* str.join
RECURSIVE Join(_, _)
Join(parts, sep) ==
    IF parts = << >> THEN << >>
    ELSE IF Len(parts) = 1 THEN parts[1]
    ELSE parts[1] \o sep \o Join(Tail(parts), sep)

PathResult(path_data, w, h) ==
    [ type |-> "PathResult", path_data |-> path_data, width |-> w, height |-> h ]

\* line 548: only the space is skipped, every other character is a pixel
is_pixel_nonwhitespace(char) == char \notin Whitespace
is_pixel(char) == char # " "

\* lines 553-554: px, py of the cell in column x of row y
pixel_origin_transposed(x, y, sc) == << y * sc, x * sc >>
pixel_origin(x, y, sc) == << x * sc, y * sc >>

\* line 558: f"M{px},{py}h{scale}v{scale}h{-scale}Z"
segment(px, py, sc) ==
    << "M" >> \o StrInt(px) \o << "," >> \o StrInt(py) \o << "h" >> \o StrInt(sc)
        \o << "v" >> \o StrInt(sc) \o << "h" >> \o StrInt(0 - sc) \o << "Z" >>

\* lines 545-558, inner loop: the segments of row y from column x on
\* (enumerate() counts from 0, sequences from 1)
RECURSIVE RowSegments(_, _, _, _)
RowSegments(line, x, y, sc) ==
    IF x >= Len(line) THEN << >>
    ELSE (IF is_pixel(line[x + 1])
          THEN << segment(pixel_origin(x, y, sc)[1], pixel_origin(x, y, sc)[2], sc) >>
          ELSE << >>)
         \o RowSegments(line, x + 1, y, sc)

\* lines 544-558, outer loop: the segments of the rows from row y on
RECURSIVE path_segments(_, _, _)
path_segments(lines, y, sc) ==
    IF y >= Len(lines) THEN << >>
    ELSE RowSegments(lines[y + 1], 0, y, sc) \o path_segments(lines, y + 1, sc)

\* lines 564-565: the size of the returned PathResult
bounding_box_of_pixels(g, sc) ==
    IF \E i \in 1..Len(g.lines) : \E j \in 1..Len(g.lines[i]) : g.lines[i][j] # " "
    THEN << g.width * sc, g.height * sc >> ELSE << 0, 0 >>
bounding_box(g, sc) == << g.width * sc, g.height * sc >>

\* lines 490-566
grid_to_paths(g, sc) ==
    IF g.lines = << >> THEN PathResult(<< >>, 0, 0)
    ELSE PathResult(Join(path_segments(g.lines, 0, sc), << " " >>),
                    bounding_box(g, sc)[1], bounding_box(g, sc)[2])

(***************************************************************************)
(* GradientPreset and generate_svg.                                        *)
(***************************************************************************)
\* a stop of a preset: GradientStop(color, offset_percent), constructed
Stop(c, n) == GradientStop(Chars(c), n).stop

SWEET_DRACULA ==
    << Stop("#ff5555", 0), Stop("#ffb86c", 16), Stop("#f1fa8c", 33),
       Stop("#50fa7b", 50), Stop("#8be9fd", 66), Stop("#bd93f9", 83),
       Stop("#ff79c6", 100) >>
DRACULA_PURPLE == << Stop("#bd93f9", 0), Stop("#ff79c6", 100) >>
CYBER_CYAN == << Stop("#8be9fd", 0), Stop("#50fa7b", 100) >>
SUNSET == << Stop("#ff5555", 0), Stop("#ffb86c", 50), Stop("#f1fa8c", 100) >>
MONO_WHITE == << Stop("#f8f8f2", 0), Stop("#f8f8f2", 100) >>

GradientPreset == { SWEET_DRACULA, DRACULA_PURPLE, CYBER_CYAN, SUNSET, MONO_WHITE }

\* the default of the gradient_id parameter (lines 572 and 721)
DefaultGradientId == Chars("headerGradient")

\* a str returned by a function
Str(v) == [ type |-> "str", value |-> v ]

\* line 621: the <stop> element of one stop
stop_xml(stop) ==
    Chars("      <stop offset=\"") \o StrInt(stop.offset_percent)
        \o Chars("%\" stop-color=\"") \o stop.color \o Chars("\"/>")

\* lines 620-623: the <stop> elements, one per line, in the order of the stops
stops_xml_reversed(stops) ==
    Join([ i \in 1..Len(stops) |-> stop_xml(Reverse(stops)[i]) ], << "\n" >>)
stops_xml(stops) ==
    Join([ i \in 1..Len(stops) |-> stop_xml(stops[i]) ], << "\n" >>)

\* lines 569-644; stops is gradient.stops of a preset or the tuple given
generate_svg(pr, stops, id) ==
    Chars("<?xml version=\"1.0\" encoding=\"UTF-8\"?>\n")
    \o Chars("<svg xmlns=\"http://www.w3.org/2000/svg\"\n")
    \o Chars("     viewBox=\"0 0 ") \o StrInt(pr.width) \o << " " >>
        \o StrInt(pr.height) \o Chars("\"\n")
    \o Chars("     width=\"") \o StrInt(pr.width) \o Chars("px\"\n")
    \o Chars("     height=\"") \o StrInt(pr.height) \o Chars("px\">\n")
    \o Chars("  <defs>\n")
    \o Chars("    <linearGradient id=\"") \o id
        \o Chars("\" x1=\"0%\" y1=\"0%\" x2=\"100%\" y2=\"0%\">\n")
    \o stops_xml(stops) \o << "\n" >>
    \o Chars("    </linearGradient>\n")
    \o Chars("  </defs>\n")
    \o Chars("  <path d=\"") \o pr.path_data \o Chars("\" fill=\"url(#") \o id
        \o Chars(")\"/>\n")
    \o Chars("</svg>")

(***************************************************************************)
(* render_text_svg: the edits of the engine's document (lines 798-853).    *)
(***************************************************************************)
\* pat occurs in s at position i
StartsAt(s, i, pat) ==
    /\ i >= 1
    /\ i + Len(pat) - 1 <= Len(s)
    /\ SubSeq(s, i, i + Len(pat) - 1) = pat

\* the first position from i on at which s holds c, Len(s) + 1 when none
Find(s, c, i) ==
    IF \E j \in i..Len(s) : s[j] = c
    THEN CHOOSE j \in i..Len(s) : s[j] = c /\ \A k \in i..(j - 1) : s[k] # c
    ELSE Len(s) + 1

\* the first position from i on at which s holds a character outside C,
\* Len(s) + 1 when none
RunEnd(s, i, C) ==
    IF \E j \in i..Len(s) : s[j] \notin C
    THEN CHOOSE j \in i..Len(s) : s[j] \notin C /\ \A k \in i..(j - 1) : s[k] \in C
    ELSE Len(s) + 1

\* <rect[^>]*LIT[^>]*/>\n? matched at position i of s: the position after
\* the match, 0 when there is no match at i. [^>]* cannot cross a ">", so the
\* "/>" of a match is at the first ">" after "<rect" and LIT lies before it.
RectMatchEnd(s, i, lit) ==
    IF ~StartsAt(s, i, Chars("<rect")) THEN 0
    ELSE LET e == Find(s, ">", i + 5)
         IN  IF /\ e <= Len(s)
                /\ s[e - 1] = "/"
                /\ \E j \in (i + 5)..(e - 1 - Len(lit)) : StartsAt(s, j, lit)
             THEN IF e < Len(s) /\ s[e + 1] = "\n" THEN e + 2 ELSE e + 1
             ELSE 0

\* style="fill:#[0-9a-fA-F]{3,6}" matched at position i of s
FillMatchEnd(s, i) ==
    IF ~StartsAt(s, i, Chars("style=\"fill:#")) THEN 0
    ELSE LET e == RunEnd(s, i + 13, HexDigits)
         IN  IF e - (i + 13) \in 3..6 /\ e <= Len(s) /\ s[e] = "\""
             THEN e + 1 ELSE 0

\* the patterns of lines 831-851 matched at position i of s
MatchEnd(pat, s, i) ==
    CASE pat = "background" -> RectMatchEnd(s, i, Chars("style=\"fill:#000\""))
      [] pat = "backdrop" -> RectMatchEnd(s, i, Chars("class=\"backdrop\""))
      [] pat = "svg" ->
             IF StartsAt(s, i, Chars("<svg")) /\ Find(s, ">", i + 4) <= Len(s)
             THEN Find(s, ">", i + 4) + 1 ELSE 0
      [] pat = "fill" -> FillMatchEnd(s, i)
      [] pat = "newlines" ->
             IF StartsAt(s, i, << "\n", "\n", "\n" >>)
             THEN RunEnd(s, i, { "\n" }) ELSE 0

\* re.sub(pat, repl, s) from position pos on: the leftmost matches that do
\* not overlap, each replaced by repl, after the match itself when keep is
\* TRUE (the \1 of line 835)
RECURSIVE ReSub(_, _, _, _, _)
ReSub(pat, keep, repl, s, pos) ==
    LET starts == { i \in pos..Len(s) : MatchEnd(pat, s, i) # 0 }
    IN  IF starts = { } THEN SubSeq(s, pos, Len(s))
        ELSE LET i == CHOOSE m \in starts : \A n \in starts : m <= n
                 e == MatchEnd(pat, s, i)
             IN  SubSeq(s, pos, i - 1)
                     \o (IF keep THEN SubSeq(s, i, e - 1) ELSE << >>)
                     \o repl
                     \o ReSub(pat, keep, repl, s, e)

\* lines 802-803: re.search(r'width="(\d+)"', svg_content), the first match
\* anywhere in the document, and the default of 100
svg_width(svg_content) ==
    LET at == { i \in 1..Len(svg_content) :
                    /\ StartsAt(svg_content, i, Chars("width=\""))
                    /\ RunEnd(svg_content, i + 7, Digits) > i + 7
                    /\ RunEnd(svg_content, i + 7, Digits) <= Len(svg_content)
                    /\ svg_content[RunEnd(svg_content, i + 7, Digits)] = "\"" }
    IN  IF at = { } THEN 100
        ELSE LET i == CHOOSE m \in at : \A n \in at : m <= n
             IN  int(SubSeq(svg_content, i + 7,
                            RunEnd(svg_content, i + 7, Digits) - 1)).val

\* lines 817-821
gradient_def(stops, id, w) ==
    Chars("  <defs>\n")
    \o Chars("    <linearGradient id=\"") \o id \o Chars("\" x1=\"0\" y1=\"0\" x2=\"")
        \o StrInt(w) \o Chars("\" y2=\"0\" gradientUnits=\"userSpaceOnUse\">\n")
    \o stops_xml(stops) \o << "\n" >>
    \o Chars("    </linearGradient>\n")
    \o Chars("  </defs>")

\* Step 1, line 831
strip_background_first_only(s) ==
    LET starts == { i \in 1..Len(s) : MatchEnd("background", s, i) # 0 }
    IN  IF starts = { } THEN s
        ELSE LET i == CHOOSE m \in starts : \A n \in starts : m <= n
             IN  SubSeq(s, 1, i - 1) \o SubSeq(s, MatchEnd("background", s, i), Len(s))
strip_background(s) == ReSub("background", FALSE, << >>, s, 1)

\* Step 2, line 835
inject_gradient(s, def) == ReSub("svg", TRUE, << "\n" >> \o def, s, 1)

\* Step 3, lines 840-844
redirect_fills_first_only(s, id) ==
    LET starts == { i \in 1..Len(s) : MatchEnd("fill", s, i) # 0 }
    IN  IF starts = { } THEN s
        ELSE LET i == CHOOSE m \in starts : \A n \in starts : m <= n
             IN  SubSeq(s, 1, i - 1) \o Chars("style=\"fill:url(#") \o id
                     \o Chars(")\"") \o SubSeq(s, MatchEnd("fill", s, i), Len(s))
redirect_fills(s, id) ==
    ReSub("fill", FALSE, Chars("style=\"fill:url(#") \o id \o Chars(")\""), s, 1)

\* Step 4, line 847
remove_backdrop(s) == ReSub("backdrop", FALSE, << >>, s, 1)

\* Step 5, line 851
collapse_blank_lines(s) == ReSub("newlines", FALSE, << "\n", "\n" >>, s, 1)

\* the edit steps of lines 831-851 by name
EditSteps ==
    { "strip_background", "inject_gradient", "redirect_fills", "remove_backdrop",
      "collapse_blank_lines" }

edit_step(e, s, def, id) ==
    CASE e = "strip_background" -> strip_background(s)
      [] e = "inject_gradient" -> inject_gradient(s, def)
      [] e = "redirect_fills" -> redirect_fills(s, id)
      [] e = "remove_backdrop" -> remove_backdrop(s)
      [] e = "collapse_blank_lines" -> collapse_blank_lines(s)

\* lines 798-853: from result.stdout to the document returned
rewrite(svg_content, stops, id) ==
    LET def == gradient_def(stops, id, svg_width(svg_content))
    IN  collapse_blank_lines(
            remove_backdrop(
                redirect_fills(
                    inject_gradient(strip_background(svg_content), def), id)))

(***************************************************************************)
(* The external engines.                                                   *)
(***************************************************************************)
\* the commands list of render_text_grid
commands(f, t) ==
    << << "toilet", "-f", f, "--", t >>,
       << "figlet", "-f", f, "--", t >> >>

\* text mode run on the secondary engine
svg_command_figlet(f, t) == << "figlet", "-f", f, "-E", "svg", "--", t >>

\* the argument vector of render_text_svg
svg_command(f, t) == << "toilet", "-f", f, "-E", "svg", "--", t >>

OutChars == { "#", " ", "\n" }
Stdouts == SeqsUpTo(OutChars, MaxOut)

\* what subprocess.run(cmd, check=True, timeout=30) can do: raise
\* FileNotFoundError, CalledProcessError or TimeoutExpired, or return the
\* output of a run that exited with status 0
Failures == { "FileNotFoundError", "CalledProcessError", "TimeoutExpired" }
Outcomes ==
    { [ kind |-> k, stdout |-> << >> ] : k \in Failures }
      \cup { [ kind |-> "ok", stdout |-> o ] : o \in Stdouts }

(***************************************************************************)
(* cli_main: the exit status for what the try block raised (lines          *)
(* 1034-1047).                                                             *)
(***************************************************************************)
\* a boundary that reports a render failure as success
cli_status_render_zero(e) ==
    IF e.type = "ValidationError" THEN 1 ELSE 0

cli_status(e) ==
    IF e.type = "ValidationError" THEN 1
    ELSE IF e.type = "RenderError" THEN 1
    ELSE 0

\* cli_main, lines 1004-1020: the document made of what the renderer
\* returned, the grid of pixel mode or the document of text mode
cli_document(r, sc, stops) ==
    IF r.type = "GridResult"
    THEN generate_svg(grid_to_paths(r, sc), stops, DefaultGradientId)
    ELSE r.value

\* the end of a call: the exception or the value goes to the caller; under
\* cli_main the document is written only when nothing was raised (lines
\* 1026-1043)
Deliver(e, r) ==
    /\ pc' = "done"
    /\ exc' = e
    /\ ret' = r
    /\ status' = IF cli' THEN cli_status(e) ELSE NoStatus
    /\ written' = (cli' /\ e = NoExc)
    /\ output' = IF cli' /\ e = NoExc THEN Str(cli_document(r, scale, gradient))
                 ELSE NoRet

(***************************************************************************)
(* Inputs.                                                                 *)
(***************************************************************************)
FontChars == { "a", "Z", "7", "-", "_", "/", ";", ".", " ", "\n" }
Fonts == SeqsUpTo(FontChars, MaxFontLen)

EngineFontChars == { "a", "-", "/", "\n" }
EngineFonts == SeqsUpTo(EngineFontChars, MaxFontLen)

Texts == { << >>, << "x" >>, << "-", "x" >>,
           Repeat("x", MAX_TEXT_LENGTH), Repeat("x", MAX_TEXT_LENGTH + 1) }

Init ==
    /\ pc = "idle"
    /\ fn = "none"
    /\ cli = FALSE
    /\ text = << >>
    /\ font = << >>
    /\ color = << >>
    /\ position = 0
    /\ gradient_str = << >>
    /\ pairs = << >>
    /\ cmdIdx = 0
    /\ last_error = NoCause
    /\ invoked = << >>
    /\ results = << >>
    /\ exc = NoExc
    /\ ret = NoRet
    /\ status = NoStatus
    /\ written = FALSE
    /\ output = NoRet
    /\ grid = NoRet
    /\ scale = 0
    /\ engine_stdout = << >>
    /\ gradient = << >>
    /\ gradient_id = << >>
    /\ path_result = NoRet
    /\ once = << >>

(***************************************************************************)
(* The pure functions, called on their own.                                *)
(***************************************************************************)
CallValidateFontName(f) ==
    /\ pc = "idle"
    /\ fn' = "validate_font_name"
    /\ font' = f
    /\ cli' = FALSE
    /\ Deliver(validate_font_name(f), NoRet)
    /\ UNCHANGED << text, color, position, gradient_str, pairs, cmdIdx,
                    last_error, invoked, results >>
    /\ UNCHANGED extra

CallGradientStop(c, p) ==
    /\ pc = "idle"
    /\ fn' = "GradientStop"
    /\ color' = c
    /\ position' = p
    /\ cli' = FALSE
    /\ LET g == GradientStop(c, p) IN Deliver(g.exc, g.stop)
    /\ UNCHANGED << text, font, gradient_str, pairs, cmdIdx, last_error, invoked, results >>
    /\ UNCHANGED extra

\* the strings parse_custom_gradient is tried on are written from pairs: a
\* pair records the text of one part and, when the part is well formed, the
\* color and the offset it denotes
Red == << "#", "f", "f", "0", "0", "0", "0" >>
Blue == << "#", "0", "0", "0", "0", "F", "F" >>
WellFormedColors == { Red, Blue }
WellFormedOffsets ==
    { [ txt |-> << "0" >>, val |-> 0 ],
      [ txt |-> << "5", "0" >>, val |-> 50 ],
      [ txt |-> << "1", "0", "0" >>, val |-> 100 ] }
WellFormedPairs ==
    { [ ok |-> TRUE, color |-> c, offset |-> o.val,
        txt |-> c \o << ":" >> \o o.txt ] :
          c \in WellFormedColors, o \in WellFormedOffsets }
      \cup
    { [ ok |-> TRUE, color |-> c, offset |-> o.val,
        txt |-> << " " >> \o c \o << " ", ":", " " >> \o o.txt \o << " " >> ] :
          c \in WellFormedColors, o \in WellFormedOffsets }
MalformedTexts ==
    { << >>,
      Red,
      Red \o << ":", "a", "b", "c" >>,
      Red \o << ":", "1", "0", "1" >>,
      Red \o << ":", "-", "1" >>,
      << "#", "f", "f", "0" >> \o << ":", "0" >>,
      << "r", "e", "d" >> \o << ":", "0" >> }
MalformedPairs ==
    { [ ok |-> FALSE, color |-> << >>, offset |-> 0, txt |-> t ] :
          t \in MalformedTexts }
Pairs == WellFormedPairs \cup MalformedPairs
PairLists == UNION { [1..k -> Pairs] : k \in 1..MaxPairs }

RECURSIVE JoinTxt(_)
JoinTxt(ps) ==
    IF Len(ps) = 1 THEN ps[1].txt
    ELSE ps[1].txt \o << "," >> \o JoinTxt(Tail(ps))

CallParseCustomGradient(ps) ==
    /\ pc = "idle"
    /\ fn' = "parse_custom_gradient"
    /\ pairs' = ps
    /\ gradient_str' = JoinTxt(ps)
    /\ cli' = FALSE
    /\ LET r == parse_custom_gradient(JoinTxt(ps))
       IN  Deliver(r.exc, IF r.exc = NoExc
                          THEN [ type |-> "tuple", stops |-> r.stops ]
                          ELSE NoRet)
    /\ UNCHANGED << text, font, color, position, cmdIdx, last_error, invoked, results >>
    /\ UNCHANGED extra

\* the characters of the cells of a grid: the blank with a pixel, and the
\* blank with a whitespace character that is not the blank
GridCells == { { "#", " " }, { "\t", " " } }

\* the rectangular grids of at most MaxGridH rows of at most MaxGridW cells,
\* width and height being those of the rows; a grid of no rows has width 0
Grids ==
    { GridResult(ls, IF ls = << >> THEN 0 ELSE Len(ls[1]), Len(ls)) :
          ls \in UNION { [1..h -> [1..w -> cs]] :
                             h \in 0..MaxGridH, w \in 0..MaxGridW, cs \in GridCells } }

Scales == { 1, 3, DEFAULT_SCALE }

CallGridToPaths(g, sc) ==
    /\ pc = "idle"
    /\ fn' = "grid_to_paths"
    /\ grid' = g
    /\ scale' = sc
    /\ cli' = FALSE
    /\ Deliver(NoExc, grid_to_paths(g, sc))
    /\ UNCHANGED << text, font, color, position, gradient_str, pairs, cmdIdx,
                    last_error, invoked, results >>
    /\ UNCHANGED << engine_stdout, gradient, gradient_id, path_result, once >>

\* the documents toilet -E svg prints (lines 801 and 830 describe them): the
\* root <svg> tag, one <rect style="fill:#000" .../> per character cell, one
\* <text style="fill:#..." ...> per glyph. A document is drawn from
\*   width    - whether the root tag declares width="..."
\*   cells    - the number of character cells, each 6 wide and 10 high
\*   fill     - the color of the glyphs, 3 or 6 hex digits
\*   backdrop - whether the <rect class="backdrop" .../> of line 846 is there
\*   gap      - the number of empty lines after the opening of the layer
GlyphFills == { Chars("#aaa"), Chars("#AAAAAA"), Chars("#f0c") }
DocShapes ==
    [ width : BOOLEAN, cells : 0..MaxCells, fill : GlyphFills,
      backdrop : BOOLEAN, gap : { 0, 3 } ]

cell_rect(c) ==
    Chars("<rect style=\"fill:#000\" x=\"") \o StrInt(6 * c)
        \o Chars("\" y=\"0\" width=\"6\" height=\"10\"/>\n")

cell_text(c, fill) ==
    Chars("<text style=\"fill:") \o fill \o Chars("\" x=\"") \o StrInt(6 * c)
        \o Chars("\" y=\"8\">#</text>\n")

RECURSIVE Concat(_)
Concat(parts) == IF parts = << >> THEN << >> ELSE Head(parts) \o Concat(Tail(parts))

EngineDoc(d) ==
    LET w == StrInt(IF d.cells = 0 THEN 6 ELSE 6 * d.cells)
    IN  Chars("<?xml version=\"1.0\"?>\n")
        \o Chars("<svg")
        \o (IF d.width THEN Chars(" width=\"") \o w \o Chars("\" height=\"10\"")
            ELSE << >>)
        \o Chars(" viewBox=\"0 0 ") \o w
        \o Chars(" 10\" xmlns=\"http://www.w3.org/2000/svg\" version=\"1.1\">\n")
        \o Chars(" <g id=\"mainlayer\" font-size=\"10\" style=\"font-family: monospace\">\n")
        \o Repeat("\n", d.gap)
        \o (IF d.backdrop
            THEN Chars("<rect class=\"backdrop\" x=\"0\" y=\"0\" width=\"") \o w
                     \o Chars("\" height=\"10\"/>\n")
            ELSE << >>)
        \o Concat([ c \in 1..d.cells |-> cell_rect(c - 1) ])
        \o Concat([ c \in 1..d.cells |-> cell_text(c - 1, d.fill) ])
        \o Chars(" </g>\n</svg>\n")

EngineDocs == { EngineDoc(d) : d \in DocShapes }

\* what subprocess.run can do with toilet -E svg, whose output is a document
SvgOutcomesOf(docs) ==
    { [ kind |-> k, stdout |-> << >> ] : k \in Failures }
      \cup { [ kind |-> "ok", stdout |-> d ] : d \in docs }
SvgOutcomes == SvgOutcomesOf(EngineDocs)

\* the documents of one glyph of the usual color, for the runs that vary the
\* text, the font and the command line
OneCellDocs ==
    { EngineDoc(d) : d \in { s \in DocShapes : /\ s.cells = 1
                                               /\ s.fill = Chars("#aaa")
                                               /\ ~s.backdrop
                                               /\ s.gap = 0 } }

\* the path results given to generate_svg
PathDatas ==
    { << >>, Chars("M0,0h10v10h-10Z"), Chars("M0,0h10v10h-10Z M20,10h10v10h-10Z") }
PathResults ==
    { PathResult(d, w, h) : d \in PathDatas, w \in { 0, 30, 100 }, h \in { 0, 20, 70 } }

\* the gradients given to generate_svg and render_text_svg: the presets and
\* custom tuples of stops
CustomGradients ==
    { << Stop("#000000", 0), Stop("#FFFFFF", 100) >>,
      << Stop("#ff5555", 100), Stop("#ff5555", 100), Stop("#50fa7b", 0) >>,
      << GradientStop(<< "#", "F", "F", "F", "F", "F", "0", "\n" >>, 0).stop,
         Stop("#ff79c6", 7) >> }
Gradients == GradientPreset \cup CustomGradients

\* the gradient ids given to generate_svg and render_text_svg
GradientIds == { Chars("headerGradient"), Chars("g1") }

CallGenerateSvg(pr, stops, id) ==
    /\ pc = "idle"
    /\ fn' = "generate_svg"
    /\ path_result' = pr
    /\ gradient' = stops
    /\ gradient_id' = id
    /\ cli' = FALSE
    /\ Deliver(NoExc, Str(generate_svg(pr, stops, id)))
    /\ UNCHANGED << text, font, color, position, gradient_str, pairs, cmdIdx,
                    last_error, invoked, results >>
    /\ UNCHANGED << grid, scale, engine_stdout, once >>

\* the documents an edit step is applied to: those of the engine and those
\* render_text_svg makes of them
EditDocs ==
    EngineDocs \cup { rewrite(d, MONO_WHITE, DefaultGradientId) : d \in EngineDocs }

\* one edit step of render_text_svg applied to a document
ApplyEdit(e, d) ==
    /\ pc = "idle"
    /\ fn' = e
    /\ engine_stdout' = d
    /\ gradient' = MONO_WHITE
    /\ gradient_id' = DefaultGradientId
    /\ pc' = "once"
    /\ ret' = Str(edit_step(e, d, gradient_def(MONO_WHITE, DefaultGradientId, svg_width(d)),
                            DefaultGradientId))
    /\ cli' = FALSE
    /\ UNCHANGED << text, font, color, position, gradient_str, pairs, cmdIdx,
                    last_error, invoked, results, exc, status, written, output >>
    /\ UNCHANGED << grid, scale, path_result, once >>

\* the same step applied to the document it returned
ApplyEditAgain ==
    /\ pc = "once"
    /\ once' = ret.value
    /\ UNCHANGED cli
    /\ Deliver(NoExc,
               Str(edit_step(fn, ret.value,
                             gradient_def(gradient, gradient_id, svg_width(engine_stdout)),
                             gradient_id)))
    /\ UNCHANGED << fn, text, font, color, position, gradient_str, pairs, cmdIdx,
                    last_error, invoked, results >>
    /\ UNCHANGED << grid, scale, engine_stdout, gradient, gradient_id, path_result >>

(***************************************************************************)
(* render_text_grid, render_text_svg and cli_main.                         *)
(***************************************************************************)
\* the first lines of both rendering functions: validate_text, then
\* validate_font_name, and only then the engine
EnterRender(name, t, f) ==
    /\ fn' = name
    /\ text' = t
    /\ font' = f
    /\ LET v1 == validate_text(t)
           v2 == validate_font_name(f)
       IN  IF v1 # NoExc THEN Deliver(v1, NoRet) /\ cmdIdx' = 0
           ELSE IF v2 # NoExc THEN Deliver(v2, NoRet) /\ cmdIdx' = 0
           ELSE /\ pc' = "run"
                /\ cmdIdx' = 1
                /\ UNCHANGED << exc, ret, status, written, output >>
    /\ UNCHANGED << color, position, last_error, invoked, results >>
    /\ UNCHANGED << grid, engine_stdout, path_result, once >>

CallRenderTextGrid(t, f) ==
    /\ pc = "idle"
    /\ cli' = FALSE
    /\ UNCHANGED << gradient_str, pairs, gradient, gradient_id, scale >>
    /\ EnterRender("render_text_grid", t, f)

\* the gradient and gradient_id arguments render_text_svg is called with:
\* the defaults of lines 720-721, and a preset and a tuple with an id
SvgArgs ==
    { << SWEET_DRACULA, DefaultGradientId >>,
      << MONO_WHITE, Chars("g1") >>,
      << << GradientStop(<< "#", "F", "F", "F", "F", "F", "0", "\n" >>, 0).stop,
            Stop("#ff79c6", 100) >>, Chars("g1") >> }

CallRenderTextSvg(t, f, stops, id) ==
    /\ pc = "idle"
    /\ cli' = FALSE
    /\ gradient' = stops
    /\ gradient_id' = id
    /\ UNCHANGED << gradient_str, pairs, scale >>
    /\ EnterRender("render_text_svg", t, f)

\* cli_main, lines 989-998: the custom gradient when one is given, else the
\* preset of --gradient, whose default is sweet_dracula
cli_gradient(g) ==
    IF g # << >> THEN parse_custom_gradient(g).stops ELSE SWEET_DRACULA

\* args.custom_gradient: the empty string stands for an absent option too,
\* `if args.custom_gradient:` takes the preset branch for both
CliGradients ==
    { << >>,
      Red \o << ":", "0", "," >> \o Blue \o << ":", "1", "0", "0" >>,
      Red \o << ":", "0" >>,
      Red \o << ":", "a", "b", "c", "," >> \o Blue \o << ":", "1", "0", "0" >> }

\* cli_main up to the first engine invocation (lines 971-1012)
CallCliMain(t, f, g, text_mode) ==
    /\ pc = "idle"
    /\ cli' = TRUE
    /\ gradient_str' = g
    /\ UNCHANGED pairs
    /\ IF t = << >>
       THEN \* parser.error(...): argparse exits with status 2
            /\ fn' = "cli_main"
            /\ text' = t
            /\ font' = f
            /\ pc' = "done"
            /\ status' = 2
            /\ UNCHANGED << color, position, cmdIdx, last_error, invoked,
                            results, exc, ret, written, output >>
            /\ UNCHANGED extra
       ELSE IF g # << >> /\ parse_custom_gradient(g).exc # NoExc
       THEN /\ fn' = "parse_custom_gradient"
            /\ text' = t
            /\ font' = f
            /\ Deliver(parse_custom_gradient(g).exc, NoRet)
            /\ UNCHANGED << color, position, cmdIdx, last_error, invoked, results >>
            /\ UNCHANGED extra
       ELSE /\ gradient' = cli_gradient(g)
            /\ gradient_id' = DefaultGradientId
            /\ scale' = DEFAULT_SCALE
            /\ EnterRender(IF text_mode THEN "render_text_svg"
                           ELSE "render_text_grid", t, f)

\* a loop that goes on to the next command after a timeout too
grid_on_failure_always_continue(k) == "continue"

\* render_text_grid: what the loop does with a failed command (lines 452-463)
grid_on_failure(k) ==
    IF k = "FileNotFoundError" THEN "continue"
    ELSE IF k = "CalledProcessError" THEN "continue"
    ELSE "raise"

\* a loop that keeps the first failure instead of the last
grid_cause_first(errors) == errors[1]

\* render_text_grid: the exception chained to the RenderError raised after
\* the loop (line 467), given the failures of the commands tried, in order
grid_cause(errors) == errors[Len(errors)]

\* one round of the loop of render_text_grid: one engine invocation and what
\* follows it (lines 437-487)
GridRun(o) ==
    /\ pc = "run"
    /\ fn = "render_text_grid"
    /\ LET cmd == commands(font, text)[cmdIdx]
           err == [ type |-> o.kind, cmd |-> cmd[1] ]
       IN  /\ invoked' = Append(invoked, cmd)
           /\ results' = Append(results, o.kind)
           /\ UNCHANGED cli
           /\ IF o.kind = "ok"
              THEN /\ Deliver(GridFromStdout(o.stdout).exc, GridFromStdout(o.stdout).ret)
                   /\ UNCHANGED << cmdIdx, last_error >>
              ELSE IF grid_on_failure(o.kind) = "raise"
              THEN /\ Deliver(RenderError("Command timed out", err), NoRet)
                   /\ UNCHANGED << cmdIdx, last_error >>
              ELSE /\ last_error' = err
                   /\ IF cmdIdx < Len(commands(font, text))
                      THEN /\ cmdIdx' = cmdIdx + 1
                           /\ UNCHANGED << pc, exc, ret, status, written, output >>
                      ELSE /\ Deliver(RenderError("Neither toilet nor figlet available or both failed",
                                                  grid_cause(<< last_error, err >>)),
                                      NoRet)
                           /\ UNCHANGED cmdIdx
    /\ UNCHANGED << fn, text, font, color, position, gradient_str, pairs >>
    /\ engine_stdout' = IF o.kind = "ok" THEN o.stdout ELSE engine_stdout
    /\ IF cli /\ o.kind = "ok" /\ GridFromStdout(o.stdout).exc = NoExc
       THEN \* cli_main, lines 1012 and 1016
            /\ grid' = GridFromStdout(o.stdout).ret
            /\ path_result' = grid_to_paths(GridFromStdout(o.stdout).ret, scale)
       ELSE UNCHANGED << grid, path_result >>
    /\ UNCHANGED << scale, gradient, gradient_id, once >>

\* render_text_svg: the exception chained to the RenderError (lines 786-796)
svg_cause(k) ==
    IF k = "FileNotFoundError" THEN NoCause
    ELSE [ type |-> k, cmd |-> "toilet" ]

svg_message(k) ==
    IF k = "FileNotFoundError" THEN "toilet not found - required for text mode SVG export"
    ELSE IF k = "CalledProcessError" THEN "toilet failed"
    ELSE "toilet command timed out"

\* render_text_svg: the engine invocation and what follows it (lines 778-853)
SvgRun(o) ==
    /\ pc = "run"
    /\ fn = "render_text_svg"
    /\ invoked' = Append(invoked, svg_command(font, text))
    /\ results' = Append(results, o.kind)
    /\ UNCHANGED cli
    /\ IF o.kind = "ok"
       THEN Deliver(NoExc, Str(rewrite(o.stdout, gradient, gradient_id)))
       ELSE Deliver(RenderError(svg_message(o.kind), svg_cause(o.kind)), NoRet)
    /\ UNCHANGED << fn, text, font, color, position, gradient_str, pairs,
                    cmdIdx, last_error >>
    /\ engine_stdout' = IF o.kind = "ok" THEN o.stdout ELSE engine_stdout
    /\ UNCHANGED << grid, scale, gradient, gradient_id, path_result, once >>

(***************************************************************************)
(* Specifications.                                                         *)
(***************************************************************************)
StopFirsts == { << >>, << "#" >>, << "0" >> }
StopMids == [1..5 -> { "F", "g" }] \cup [1..6 -> { "F", "g" }]
StopTails == SeqsUpTo({ "0", "\n" }, MaxTail)
StopColors == { a \o b \o c : a \in StopFirsts, b \in StopMids, c \in StopTails }
StopPositions == { 0 - 1, 0, 50, 100, 101 }

\* the engines and the command line
Next ==
    \/ /\ pc = "idle"
       /\ \E t \in Texts, f \in EngineFonts : CallRenderTextGrid(t, f)
    \/ /\ pc = "idle"
       /\ \E t \in Texts, f \in EngineFonts, a \in SvgArgs :
              CallRenderTextSvg(t, f, a[1], a[2])
    \/ /\ pc = "idle"
       /\ \E t \in Texts, f \in EngineFonts, g \in CliGradients, m \in BOOLEAN :
              CallCliMain(t, f, g, m)
    \/ /\ pc = "run"
       /\ \E o \in Outcomes : GridRun(o)
    \/ /\ pc = "run"
       /\ \E o \in SvgOutcomesOf(OneCellDocs) : SvgRun(o)

Spec == Init /\ [][Next]_vars

\* validate_font_name on its own
NextFont == pc = "idle" /\ \E f \in Fonts : CallValidateFontName(f)
SpecFont == Init /\ [][NextFont]_vars

\* GradientStop on its own
NextStop ==
    pc = "idle" /\ \E c \in StopColors, p \in StopPositions : CallGradientStop(c, p)
SpecStop == Init /\ [][NextStop]_vars

\* parse_custom_gradient on its own
NextParse == pc = "idle" /\ \E ps \in PairLists : CallParseCustomGradient(ps)
SpecParse == Init /\ [][NextParse]_vars

\* render_text_svg on every document, for one text and one font
NextRewrite ==
    \/ /\ pc = "idle"
       /\ \E a \in SvgArgs : CallRenderTextSvg(<< "x" >>, << "a" >>, a[1], a[2])
    \/ /\ pc = "run"
       /\ \E o \in SvgOutcomes : SvgRun(o)
SpecRewrite == Init /\ [][NextRewrite]_vars

\* the edit steps of render_text_svg on their own, each applied twice
NextEdit ==
    \/ /\ pc = "idle"
       /\ \E e \in EditSteps, d \in EditDocs : ApplyEdit(e, d)
    \/ ApplyEditAgain
SpecEdit == Init /\ [][NextEdit]_vars

\* grid_to_paths on its own
NextPaths == pc = "idle" /\ \E g \in Grids, sc \in Scales : CallGridToPaths(g, sc)
SpecPaths == Init /\ [][NextPaths]_vars

\* generate_svg on its own
NextGenerate ==
    pc = "idle" /\ \E pr \in PathResults, stops \in Gradients, id \in GradientIds :
                       CallGenerateSvg(pr, stops, id)
SpecGenerate == Init /\ [][NextGenerate]_vars

(***************************************************************************)
(* Properties.                                                             *)
(***************************************************************************)
Rendering == fn \in { "render_text_grid", "render_text_svg" }
Engine(i) == invoked[i][1]
Last(q) == q[Len(q)]

\* the allow-list as documented: a non-empty identifier of letters, digits,
\* hyphens and underscores only
AllowListed(f) == f # << >> /\ \A i \in 1..Len(f) : f[i] \in FontNameClass

\* C1: in render_text_grid and render_text_svg, a text that is empty or
\* longer than MAX_TEXT_LENGTH, or a font identifier outside the allow-list,
\* makes the call fail with ValidationError, with no engine invoked.
C1_ValidationBeforeEngine ==
    (Rendering /\ (text = << >> \/ Len(text) > MAX_TEXT_LENGTH \/ ~AllowListed(font)))
        => (pc = "done" /\ exc.type = "ValidationError" /\ invoked = << >>)

\* C2 as claimed: in render_text_grid figlet is invoked only after toilet's
\* executable was not found.
C2_FigletOnlyIfToiletAbsent ==
    fn = "render_text_grid" =>
        \A i \in 1..Len(invoked) :
            Engine(i) = "figlet" => (i = 2 /\ results[1] = "FileNotFoundError")

\* C2 as amended: in render_text_grid figlet is invoked only after toilet's
\* executable was not found or toilet exited with a non-zero status; after a
\* toilet timeout or a toilet success figlet is not invoked.
C2_FigletOnlyAfterToiletAbsentOrNonZero ==
    fn = "render_text_grid" =>
        \A i \in 1..Len(invoked) :
            Engine(i) = "figlet" =>
                (i = 2 /\ Engine(1) = "toilet"
                   /\ results[1] \in { "FileNotFoundError", "CalledProcessError" })

C2_Witness ==
    /\ fn = "render_text_grid"
    /\ Len(invoked) = 2
    /\ Engine(2) = "figlet"
    /\ results[1] = "CalledProcessError"

\* C3: in render_text_grid a timed-out invocation is the last one: the call
\* is over with a RenderError, no engine is invoked after it, no grid is
\* returned.
C3_TimeoutIsFatal ==
    fn = "render_text_grid" =>
        \A i \in 1..Len(results) :
            results[i] = "TimeoutExpired" =>
                /\ i = Len(invoked)
                /\ pc = "done"
                /\ exc.type = "RenderError"
                /\ ret = NoRet

C3_Witness ==
    /\ fn = "render_text_grid"
    /\ results = << "TimeoutExpired" >>
    /\ Engine(1) = "toilet"
    /\ pc = "done"
    /\ exc.type = "RenderError"

\* C4: render_text_svg invokes toilet only, exactly once when the inputs pass
\* validation, never figlet; when that invocation fails (no executable,
\* non-zero exit, timeout) the call raises RenderError and returns nothing.
C4_SvgPrimaryOnlyOnce ==
    fn = "render_text_svg" =>
        /\ Len(invoked) <= 1
        /\ \A i \in 1..Len(invoked) : Engine(i) = "toilet"
        /\ (pc = "done" /\ exc.type # "ValidationError") => Len(invoked) = 1
        /\ (results # << >> /\ results[1] \in Failures) =>
               (pc = "done" /\ exc.type = "RenderError" /\ ret = NoRet)

C4_Witness ==
    /\ fn = "render_text_svg"
    /\ results = << "CalledProcessError" >>
    /\ Engine(1) = "toilet"
    /\ exc.type = "RenderError"

\* a RenderError raised because the last engine invocation failed
EngineFailure ==
    /\ Rendering
    /\ exc.type = "RenderError"
    /\ results # << >>
    /\ Last(results) \in Failures

\* C5 as claimed: every RenderError raised for an engine failure carries a
\* cause, and in render_text_grid that cause is the failure of the last
\* engine tried.
C5_CauseAlwaysChained ==
    EngineFailure =>
        /\ exc.cause # NoCause
        /\ fn = "render_text_grid" =>
               exc.cause = [ type |-> Last(results), cmd |-> Engine(Len(invoked)) ]

\* C5 as amended: every RenderError raised for an engine failure carries the
\* failure of the last engine tried as its cause, except the one
\* render_text_svg raises for a missing executable, which carries no cause.
C5_CauseChainedExceptSvgNotFound ==
    EngineFailure =>
        IF fn = "render_text_svg" /\ Last(results) = "FileNotFoundError"
        THEN exc.cause = NoCause
        ELSE exc.cause = [ type |-> Last(results), cmd |-> Engine(Len(invoked)) ]

C5_Witness ==
    /\ fn = "render_text_grid"
    /\ results = << "CalledProcessError", "FileNotFoundError" >>
    /\ exc.type = "RenderError"
    /\ exc.cause = [ type |-> "FileNotFoundError", cmd |-> "figlet" ]

\* a run of cli_main that ended with the given kind of failure
CliFailed(kind) == cli /\ pc = "done" /\ exc.type = kind

\* C6 as claimed: the exit status of a validation failure is not zero and is
\* not the status cli_main gives a render failure, and the other way round.
C6_DistinctStatuses ==
    /\ CliFailed("ValidationError") =>
           (status # 0 /\ status # cli_status(RenderError("", NoCause)))
    /\ CliFailed("RenderError") =>
           (status # 0 /\ status # cli_status(ValidationError("")))

\* C6 as amended: cli_main returns the same non-zero exit status, 1, for a
\* validation failure and for a render failure, and 0 for a run on which
\* nothing was raised.
C6_BothFailuresExitOne ==
    /\ (CliFailed("ValidationError") \/ CliFailed("RenderError")) => status = 1
    /\ (CliFailed("None") /\ Rendering) => status = 0

C6_Witness ==
    /\ CliFailed("RenderError")
    /\ status = 1
    /\ results # << >>

\* C7: validate_font_name accepts an identifier exactly when it is non-empty
\* and made of letters, digits, hyphens and underscores only; every other
\* identifier is rejected with ValidationError.
C7_FontAcceptedIffAllowListed ==
    (fn = "validate_font_name" /\ pc = "done") =>
        /\ exc = NoExc <=> AllowListed(font)
        /\ exc # NoExc => exc.type = "ValidationError"

\* '#' followed by six hex digits and nothing else
ExactHexColor(c) ==
    /\ Len(c) = 7
    /\ c[1] = "#"
    /\ \A i \in 2..7 : c[i] \in HexDigits

\* C8: GradientStop(color, position) succeeds exactly when color is '#' and
\* six hex digits and 0 <= position <= 100; then the stop holds the inputs
\* unchanged, otherwise ValidationError is raised and there is no stop.
C8_StopIffWellFormed ==
    (fn = "GradientStop" /\ pc = "done") =>
        /\ exc = NoExc <=> (ExactHexColor(color) /\ 0 <= position /\ position <= 100)
        /\ exc = NoExc =>
               ret = [ type |-> "GradientStop", color |-> color,
                       offset_percent |-> position ]
        /\ exc # NoExc => (exc.type = "ValidationError" /\ ret = NoRet)

AllWellFormed == \A i \in 1..Len(pairs) : pairs[i].ok

\* C9: on n >= 2 well-formed pairs parse_custom_gradient returns n stops, the
\* i-th being the color and the offset of the i-th pair, whatever the order
\* of the offsets.
C9_ParsePreservesOrder ==
    (fn = "parse_custom_gradient" /\ pc = "done" /\ ~cli
       /\ Len(pairs) >= 2 /\ AllWellFormed) =>
        /\ exc = NoExc
        /\ Len(ret.stops) = Len(pairs)
        /\ \A i \in 1..Len(pairs) :
               /\ ret.stops[i].color = pairs[i].color
               /\ ret.stops[i].offset_percent = pairs[i].offset

C9_Witness ==
    /\ fn = "parse_custom_gradient"
    /\ pc = "done"
    /\ Len(pairs) = 3
    /\ AllWellFormed
    /\ pairs[1].offset = 100 /\ pairs[2].offset = 0 /\ pairs[3].offset = 0
    /\ exc = NoExc
    /\ ret.stops[1].offset_percent = 100

\* C10: parse_custom_gradient never returns fewer than 2 stops, and an input
\* whose parts all parse but number fewer than 2 fails with the
\* minimum-stops ValidationError.
C10_MinimumStops ==
    (fn = "parse_custom_gradient" /\ pc = "done" /\ ~cli) =>
        /\ exc = NoExc => Len(ret.stops) >= 2
        /\ (Len(pairs) < 2 /\ AllWellFormed) => exc = MinStopsError

C10_Witness ==
    /\ fn = "parse_custom_gradient"
    /\ pc = "done"
    /\ Len(pairs) = 1
    /\ AllWellFormed
    /\ exc = MinStopsError

(***************************************************************************)
(* Properties of grid_to_paths.                                            *)
(***************************************************************************)
PathsDone == fn = "grid_to_paths" /\ pc = "done"

CountOf(s, c) == Cardinality({ i \in 1..Len(s) : s[i] = c })

\* the cells of a grid that are not the blank, as << row, column >> from 0
NonBlankCells(g) ==
    { rc \in UNION { { << i - 1, j - 1 >> : j \in 1..Len(g.lines[i]) } :
                         i \in 1..Len(g.lines) } :
          g.lines[rc[1] + 1][rc[2] + 1] # " " }

\* the subpaths of a path: each starts at a moveto and ends at the next
\* blank or at the end of the path
Subpaths(d) == IF d = << >> THEN << >> ELSE Split(d, " ")

\* the position of the k-th c in s, 0 when there are fewer
Nth(s, c, k) ==
    IF CountOf(s, c) < k THEN 0
    ELSE CHOOSE i \in 1..Len(s) :
             s[i] = c /\ CountOf(SubSeq(s, 1, i), c) = k

\* a number of a path: digits after an optional minus sign
PathNumber(s) ==
    LET neg == s # << >> /\ s[1] = "-"
        body == IF neg THEN Tail(s) ELSE s
    IN  IF body # << >> /\ \A i \in 1..Len(body) : body[i] \in Digits
        THEN [ ok |-> TRUE,
               val |-> IF neg THEN 0 - DigitsValue(body, 0) ELSE DigitsValue(body, 0) ]
        ELSE [ ok |-> FALSE, val |-> 0 ]

\* the vertices a subpath "M x,y h a v b h c Z" visits, in order, and
\* whether it is of that form
Vertices(p) ==
    LET iC == Nth(p, ",", 1)
        iH == Nth(p, "h", 1)
        iV == Nth(p, "v", 1)
        iB == Nth(p, "h", 2)
        x == PathNumber(SubSeq(p, 2, iC - 1))
        y == PathNumber(SubSeq(p, iC + 1, iH - 1))
        a == PathNumber(SubSeq(p, iH + 1, iV - 1))
        b == PathNumber(SubSeq(p, iV + 1, iB - 1))
        c == PathNumber(SubSeq(p, iB + 1, Len(p) - 1))
    IN  IF /\ Len(p) >= 11
           /\ p[1] = "M" /\ p[Len(p)] = "Z"
           /\ 1 < iC /\ iC < iH /\ iH < iV /\ iV < iB /\ iB < Len(p)
           /\ x.ok /\ y.ok /\ a.ok /\ b.ok /\ c.ok
        THEN [ ok |-> TRUE,
               at |-> << << x.val, y.val >>,
                         << x.val + a.val, y.val >>,
                         << x.val + a.val, y.val + b.val >>,
                         << x.val + a.val + c.val, y.val + b.val >> >> ]
        ELSE [ ok |-> FALSE, at |-> << >> ]

\* the closed axis-aligned square of side sc with top-left corner (X, Y)
IsSquare(p, X, Y, sc) ==
    /\ Vertices(p).ok
    /\ Vertices(p).at[1] = << X, Y >>
    /\ { Vertices(p).at[i] : i \in 1..4 } =
           { << X, Y >>, << X + sc, Y >>, << X + sc, Y + sc >>, << X, Y + sc >> }

\* the non-blank cells of a grid in row-major order
RowMajor(g) ==
    LET before(c, d) == c[1] < d[1] \/ (c[1] = d[1] /\ c[2] < d[2])
        cells == NonBlankCells(g)
    IN  [ k \in 1..Cardinality(cells) |->
              CHOOSE c \in cells :
                  Cardinality({ d \in cells : before(d, c) }) = k - 1 ]

\* C11: for every rectangular grid and positive scale the bounding box of
\* the path grid_to_paths returns is (grid.width * scale, grid.height *
\* scale), and the path has as many subpaths as the grid has non-blank cells.
C11_BoundingBoxAndSubpathCount ==
    PathsDone =>
        /\ exc = NoExc
        /\ ret.width = grid.width * scale
        /\ ret.height = grid.height * scale
        /\ CountOf(ret.path_data, "M") = Cardinality(NonBlankCells(grid))
        /\ Len(Subpaths(ret.path_data)) = Cardinality(NonBlankCells(grid))

C11_Witness ==
    /\ PathsDone
    /\ grid.lines = << << "\t", " " >>, << "\t", "\t" >> >>
    /\ scale = DEFAULT_SCALE
    /\ ret.width = 20 /\ ret.height = 20
    /\ CountOf(ret.path_data, "M") = 3

\* a grid whose every cell is the blank, the grid of no rows included
AllBlank(g) == NonBlankCells(g) = { }

\* C12 as claimed: on a grid whose every cell is blank, the grid of no rows
\* included, grid_to_paths returns an empty path whose bounding box has area
\* zero, and does not raise.
C12_BlankGridZeroArea ==
    (PathsDone /\ AllBlank(grid)) =>
        /\ exc = NoExc
        /\ ret.path_data = << >>
        /\ ret.width * ret.height = 0

\* C12 as amended: on a grid whose every cell is blank grid_to_paths returns
\* an empty path and does not raise; the bounding box is still (grid.width *
\* scale, grid.height * scale), of area zero only when the grid has no rows
\* or no columns.
C12_BlankGridEmptyPathFullBox ==
    (PathsDone /\ AllBlank(grid)) =>
        /\ exc = NoExc
        /\ ret.path_data = << >>
        /\ ret.width = grid.width * scale
        /\ ret.height = grid.height * scale
        /\ (ret.width * ret.height = 0) <=> (grid.height = 0 \/ grid.width = 0)

C12_Witness ==
    /\ PathsDone
    /\ grid.lines = << << " ", " " >>, << " ", " " >> >>
    /\ scale = 3
    /\ ret = PathResult(<< >>, 6, 6)

\* C18: the k-th subpath grid_to_paths emits is the closed axis-aligned
\* square of side scale whose top-left corner is (column * scale, row *
\* scale) of the k-th non-blank cell in row-major order; blank cells emit
\* nothing and no two cells are merged.
C18_SubpathPerCellRowMajor ==
    PathsDone =>
        LET subs == Subpaths(ret.path_data)
            cells == RowMajor(grid)
        IN  /\ Len(subs) = Len(cells)
            /\ \A k \in 1..Len(subs) :
                   IsSquare(subs[k], cells[k][2] * scale, cells[k][1] * scale, scale)

C18_Witness ==
    /\ PathsDone
    /\ grid.lines = << << " ", "#" >>, << "#", " " >> >>
    /\ scale = DEFAULT_SCALE
    /\ ret.path_data = Chars("M10,0h10v10h-10Z M0,10h10v10h-10Z")

(***************************************************************************)
(* Properties of the grid render_text_grid returns.                        *)
(***************************************************************************)
\* render_text_grid has returned a grid
GridReturned == fn = "render_text_grid" /\ pc = "done" /\ exc = NoExc

\* the number of newlines that end a string
TrailingNewlines(s) ==
    CHOOSE k \in 0..Len(s) :
        /\ \A i \in (Len(s) - k + 1)..Len(s) : s[i] = "\n"
        /\ k = Len(s) \/ s[Len(s) - k] # "\n"

\* a string without the newlines that end it
Body(s) == SubSeq(s, 1, Len(s) - TrailingNewlines(s))

\* the raw lines of an engine's output: the stretches between the newlines
\* of its body
RawLines(out) ==
    LET b == Body(out)
        cuts == << 0 >> \o [ k \in 1..CountOf(b, "\n") |-> Nth(b, "\n", k) ]
                        \o << Len(b) + 1 >>
    IN  [ i \in 1..(Len(cuts) - 1) |-> SubSeq(b, cuts[i] + 1, cuts[i + 1] - 1) ]

\* C15: every grid render_text_grid returns is rectangular: its rows have one
\* length, width is that length and the greatest length of a raw line,
\* height is the number of rows, and each row is its raw line followed by
\* blanks only, the rows in the order of the raw lines.
C15_GridIsRectangular ==
    GridReturned =>
        LET raw == RawLines(engine_stdout)
        IN  /\ ret.type = "GridResult"
            /\ ret.height = Len(ret.lines)
            /\ Len(ret.lines) = Len(raw)
            /\ \A i \in 1..Len(raw) : Len(ret.lines[i]) = ret.width
            /\ \A i \in 1..Len(raw) : Len(raw[i]) <= ret.width
            /\ \E i \in 1..Len(raw) : Len(raw[i]) = ret.width
            /\ \A i \in 1..Len(raw) :
                   /\ SubSeq(ret.lines[i], 1, Len(raw[i])) = raw[i]
                   /\ \A j \in (Len(raw[i]) + 1)..ret.width : ret.lines[i][j] = " "

C15_Witness ==
    /\ GridReturned
    /\ engine_stdout = Chars("#\n##")
    /\ ret = GridResult(<< Chars("# "), Chars("##") >>, 2, 2)

\* an output of blanks and newlines only, the empty output included
BlankOutput(out) == \A i \in 1..Len(out) : out[i] \in { " ", "\n" }

\* the engine tried last exited with status 0
EngineSucceeded ==
    /\ fn = "render_text_grid"
    /\ pc = "done"
    /\ results # << >>
    /\ Last(results) = "ok"

\* C16: when an engine exits with status 0 and its output is empty or blank
\* (blanks and newlines only), render_text_grid raises RenderError and
\* returns no grid.
C16_BlankOutputRaises ==
    (EngineSucceeded /\ BlankOutput(engine_stdout)) =>
        /\ exc.type = "RenderError"
        /\ ret = NoRet

\* C20 as claimed: render_text_grid drops exactly one trailing newline, so an
\* output that ends in k >= 2 newlines keeps k - 1 trailing empty lines as
\* rows of blanks, counted in height.
C20_ExactlyOneNewlineDropped ==
    GridReturned =>
        LET k == TrailingNewlines(engine_stdout)
        IN  ret.height = CountOf(Body(engine_stdout), "\n") + 1
                             + (IF k >= 2 THEN k - 1 ELSE 0)

\* C20 as amended: render_text_grid drops every trailing newline, so an
\* output that ends in k >= 1 newlines keeps no trailing empty line: height
\* is the number of lines up to the last character that is not a newline,
\* and the last row is the line that character is on.
C20_EveryTrailingNewlineDropped ==
    GridReturned =>
        LET raw == RawLines(engine_stdout)
        IN  /\ ret.height = CountOf(Body(engine_stdout), "\n") + 1
            /\ raw[Len(raw)] # << >>
            /\ ret.lines[ret.height] = raw[Len(raw)] \o
                   Repeat(" ", ret.width - Len(raw[Len(raw)]))

C20_Witness ==
    /\ GridReturned
    /\ engine_stdout = Chars("#\n\n\n")
    /\ ret = GridResult(<< Chars("#") >>, 1, 1)

(***************************************************************************)
(* Properties of the document generate_svg returns.                        *)
(***************************************************************************)
GenerateDone == fn = "generate_svg" /\ pc = "done"

\* the positions at which pat occurs in s
Occurrences(s, pat) == { i \in 1..Len(s) : StartsAt(s, i, pat) }

\* the k-th of a set of positions
NthOf(ps, k) == CHOOSE i \in ps : Cardinality({ j \in ps : j < i }) = k - 1

\* the tag that opens at position i of s: from its "<" to its ">"
TagAt(s, i) == SubSeq(s, i, Find(s, ">", i))

\* the value of attribute name in a tag, << "?" >> when the tag has none;
\* white space of any kind may precede the attribute
Attr(tag, name) ==
    LET key == name \o << "=", "\"" >>
        at == { i \in Occurrences(tag, key) : i > 1 /\ tag[i - 1] \in Whitespace }
    IN  IF at = { } THEN << "?" >>
        ELSE LET from == NthOf(at, 1) + Len(key)
             IN  SubSeq(tag, from, Find(tag, "\"", from) - 1)

\* the tags of s that open an element called name, in document order
Elements(s, name) ==
    LET at == { i \in Occurrences(s, << "<" >> \o name) :
                    s[i + Len(name) + 1] \in Whitespace \cup { ">", "/" } }
    IN  [ k \in 1..Cardinality(at) |-> TagAt(s, NthOf(at, k)) ]

Tag(s, name, k) == Elements(s, name)[k]

\* C17: the document generate_svg returns holds exactly one gradient
\* definition, with one stop element per stop given, in the order given, each
\* with the stop's offset as a percentage and its color, on the left-to-right
\* axis from 0% to 100%; exactly one path element, whose fill refers to the
\* id of that gradient; and the width, height and viewBox of the PathResult.
C17_OneGradientOnePath ==
    GenerateDone =>
        LET doc == ret.value
            url == Chars("url(#") \o gradient_id \o << ")" >>
            open == NthOf(Occurrences(doc, Chars("<linearGradient")), 1)
            close == NthOf(Occurrences(doc, Chars("</linearGradient>")), 1)
        IN  /\ exc = NoExc
            /\ Len(Elements(doc, Chars("linearGradient"))) = 1
            /\ Cardinality(Occurrences(doc, Chars("</linearGradient>"))) = 1
            /\ Attr(Tag(doc, Chars("linearGradient"), 1), Chars("id")) = gradient_id
            /\ Attr(Tag(doc, Chars("linearGradient"), 1), Chars("x1")) = Chars("0%")
            /\ Attr(Tag(doc, Chars("linearGradient"), 1), Chars("x2")) = Chars("100%")
            /\ Attr(Tag(doc, Chars("linearGradient"), 1), Chars("y1")) = Chars("0%")
            /\ Attr(Tag(doc, Chars("linearGradient"), 1), Chars("y2")) = Chars("0%")
            /\ Len(Elements(doc, Chars("stop"))) = Len(gradient)
            /\ \A i \in Occurrences(doc, Chars("<stop")) : open < i /\ i < close
            /\ \A k \in 1..Len(gradient) :
                   /\ Attr(Tag(doc, Chars("stop"), k), Chars("offset")) =
                          StrInt(gradient[k].offset_percent) \o << "%" >>
                   /\ Attr(Tag(doc, Chars("stop"), k), Chars("stop-color")) =
                          gradient[k].color
            /\ Len(Elements(doc, Chars("path"))) = 1
            /\ Attr(Tag(doc, Chars("path"), 1), Chars("fill")) = url
            /\ Attr(Tag(doc, Chars("path"), 1), Chars("d")) = path_result.path_data
            /\ Len(Elements(doc, Chars("svg"))) = 1
            /\ Attr(Tag(doc, Chars("svg"), 1), Chars("width")) =
                   StrInt(path_result.width) \o Chars("px")
            /\ Attr(Tag(doc, Chars("svg"), 1), Chars("height")) =
                   StrInt(path_result.height) \o Chars("px")
            /\ Attr(Tag(doc, Chars("svg"), 1), Chars("viewBox")) =
                   Chars("0 0 ") \o StrInt(path_result.width) \o << " " >>
                       \o StrInt(path_result.height)

C17_Witness ==
    /\ GenerateDone
    /\ gradient = SUNSET
    /\ gradient_id = Chars("g1")
    /\ path_result = PathResult(Chars("M0,0h10v10h-10Z M20,10h10v10h-10Z"), 30, 20)
    /\ Len(Elements(ret.value, Chars("stop"))) = 3
    /\ Attr(Tag(ret.value, Chars("stop"), 2), Chars("offset")) = Chars("50%")
    /\ Attr(Tag(ret.value, Chars("path"), 1), Chars("fill")) = Chars("url(#g1)")

(***************************************************************************)
(* Properties of the document render_text_svg returns.                     *)
(***************************************************************************)
\* render_text_svg has returned a document
SvgReturned == fn = "render_text_svg" /\ pc = "done" /\ exc = NoExc

\* C13: for a document of the engine's native export (one opening <svg>
\* tag, one opaque background <rect> per character cell, glyphs with a flat
\* fill of 3 or 6 hex digits) the document render_text_svg returns holds
\* exactly one gradient definition, with gradientUnits="userSpaceOnUse", no
\* background element, no flat hex fill, and every glyph's fill refers to
\* the id of that gradient.
C13_OneGradientNoFlatFill ==
    SvgReturned =>
        LET out == ret.value
            url == Chars("fill:url(#") \o gradient_id \o << ")" >>
        IN  /\ Len(Elements(out, Chars("linearGradient"))) = 1
            /\ Cardinality(Occurrences(out, Chars("</linearGradient>"))) = 1
            /\ Len(Elements(out, Chars("defs"))) = 1
            /\ Attr(Tag(out, Chars("linearGradient"), 1), Chars("gradientUnits")) =
                   Chars("userSpaceOnUse")
            /\ Attr(Tag(out, Chars("linearGradient"), 1), Chars("id")) = gradient_id
            /\ Len(Elements(out, Chars("rect"))) = 0
            /\ Occurrences(out, Chars("fill:#")) = { }
            /\ Len(Elements(out, Chars("text"))) =
                   Len(Elements(engine_stdout, Chars("text")))
            /\ \A k \in 1..Len(Elements(out, Chars("text"))) :
                   Attr(Tag(out, Chars("text"), k), Chars("style")) = url

C13_Witness ==
    /\ SvgReturned
    /\ engine_stdout = EngineDoc([ width |-> TRUE, cells |-> 2, fill |-> Chars("#AAAAAA"),
                                   backdrop |-> TRUE, gap |-> 0 ])
    /\ gradient_id = Chars("g1")
    /\ Len(Elements(engine_stdout, Chars("rect"))) = 3
    /\ Len(Elements(ret.value, Chars("text"))) = 2
    /\ Attr(Tag(ret.value, Chars("text"), 2), Chars("style")) = Chars("fill:url(#g1)")

\* the width the root <svg> tag of a document declares, 100 when it declares
\* none
RootWidth(doc) ==
    LET v == Attr(Tag(doc, Chars("svg"), 1), Chars("width"))
    IN  IF PathNumber(v).ok THEN PathNumber(v).val ELSE 100

\* C19: the axis of the gradient render_text_svg injects runs from x1 = 0 to
\* x2 = W with y1 = y2 = 0, W being the width the root <svg> element of the
\* engine's document declares, and 100 when the document declares no width.
C19_AxisSpansRootWidth ==
    SvgReturned =>
        LET tag == Tag(ret.value, Chars("linearGradient"), 1)
        IN  /\ Attr(tag, Chars("x1")) = Chars("0")
            /\ Attr(tag, Chars("y1")) = Chars("0")
            /\ Attr(tag, Chars("y2")) = Chars("0")
            /\ Attr(tag, Chars("x2")) = StrInt(RootWidth(engine_stdout))

(***************************************************************************)
(* Properties of the edit steps of render_text_svg.                        *)
(***************************************************************************)
\* an edit step has been applied twice: once holds the document after the
\* first application, ret the document after the second
EditedTwice == fn \in EditSteps /\ pc = "done"

\* C14 as claimed: each edit step (strip the background rects, inject the
\* gradient definition, redirect the fills, remove the backdrop, collapse
\* the blank lines) is idempotent: applying it twice gives the document that
\* applying it once gives.
C14_EveryStepIdempotent == EditedTwice => ret.value = once

\* C14 as amended: on the documents of the engine and those render_text_svg
\* makes of them, stripping the background rects, redirecting the fills,
\* removing the backdrop and collapsing the blank lines are idempotent;
\* injecting the gradient definition is not: every application adds one more
\* definition after the opening <svg> tag.
C14_StepsIdempotentExceptInject ==
    EditedTwice =>
        IF fn = "inject_gradient"
        THEN /\ ret.value # once
             /\ Len(Elements(once, Chars("linearGradient"))) =
                    Len(Elements(engine_stdout, Chars("linearGradient"))) + 1
             /\ Len(Elements(ret.value, Chars("linearGradient"))) =
                    Len(Elements(engine_stdout, Chars("linearGradient"))) + 2
        ELSE ret.value = once

C14_Witness ==
    /\ EditedTwice
    /\ fn = "strip_background"
    /\ engine_stdout = EngineDoc([ width |-> TRUE, cells |-> 2, fill |-> Chars("#aaa"),
                                   backdrop |-> TRUE, gap |-> 3 ])
    /\ Len(Elements(engine_stdout, Chars("rect"))) = 3
    /\ Len(Elements(once, Chars("rect"))) = 1
    /\ ret.value = once

(***************************************************************************)
(* Properties of what cli_main writes.                                     *)
(***************************************************************************)
\* cli_main has ended
CliDone == cli /\ pc = "done"

\* a validation failure: empty or over-long text, a font identifier outside
\* the allow-list, a custom gradient that does not parse
ValidationFailure ==
    \/ text = << >>
    \/ Len(text) > MAX_TEXT_LENGTH
    \/ ~AllowListed(font)
    \/ gradient_str # << >> /\ parse_custom_gradient(gradient_str).exc # NoExc

\* a render failure: the engine tried last was missing, exited with a status
\* other than 0 or timed out, or the pixel mode engine printed nothing or
\* blanks only
RenderFailure ==
    /\ results # << >>
    /\ \/ Last(results) \in Failures
       \/ fn = "render_text_grid" /\ BlankOutput(engine_stdout)

\* a whole document: from the XML declaration to the closing </svg>
WholeDocument(doc) ==
    /\ StartsAt(doc, 1, Chars("<?xml"))
    /\ \/ StartsAt(doc, Len(doc) - 5, Chars("</svg>"))
       \/ StartsAt(doc, Len(doc) - 6, Chars("</svg>\n"))
    /\ Len(Elements(doc, Chars("svg"))) = 1
    /\ Len(Elements(doc, Chars("linearGradient"))) = 1

\* C21: whenever a validation failure or a render failure occurs, in pixel
\* mode or in text mode, cli_main writes no document and returns a status
\* other than 0; a document is written only by a run that returns status 0,
\* and then the whole document.
C21_NoDocumentOnFailure ==
    /\ (CliDone /\ (ValidationFailure \/ RenderFailure)) =>
           /\ ~written
           /\ output = NoRet
           /\ status \notin { 0, NoStatus }
    /\ written =>
           /\ CliDone
           /\ status = 0
           /\ output.type = "str"
           /\ WholeDocument(output.value)

====
